---- MODULE Spec2Model ----
(***************************************************************************)
(* Model of ethereumetl/streaming/stream.py: the checkpoint file, the      *)
(* join / enrichment functions and the loop of stream().                   *)
(***************************************************************************)
EXTENDS Integers, Sequences, FiniteSets, TLC

VARIABLES
    chain,              \* which node the provider talks to (decides the heads it can report)
    file,               \* content of last_synced_block_file, NoFile when it does not exist
    start_block,        \* argument of stream()
    end_block,          \* argument of stream()
    lag,                \* argument of stream()
    block_batch_size,   \* argument of stream()
    pc,                 \* position of the process in stream()
    exporter,           \* state of item_exporter: "new", "open"
    last_synced_block,  \* local of stream()
    current_block,      \* local of stream()
    target_block,       \* local of stream()
    blocks_to_sync,     \* local of stream()
    blocks,             \* local of stream(): items of type block
    transactions,       \* local of stream(): items of type transaction
    receipts,           \* local of stream(): items of type receipt
    logs,               \* local of stream(): items of type log
    token_transfers,    \* local of stream(): items of type token_transfer
    batch,              \* the argument of the pending / last export_items call
    sink,               \* block numbers of the batches export_items accepted
    passed,             \* block numbers of the batches export_items was called with
    sleeps,             \* time.sleep calls made since the loop test of this iteration
    fetches,            \* fetch collaborators run since the loop test of this iteration
    outcome,            \* how the iteration in progress went so far
    iter_file,          \* the checkpoint file as it was at the loop test of this iteration
    last_window,        \* the window of the last iteration that wrote the checkpoint
    prev_target,        \* the checkpoint that iteration started from
    failed_from,        \* first block of the window whose publish failed last, None after a success
    failed_to,          \* last block of that window
    origin,             \* the first cursor this checkpoint file was created with
    restarted           \* whether the process was stopped and stream() started again

vars == <<chain, file, start_block, end_block, lag, block_batch_size, pc, exporter,
          last_synced_block, current_block, target_block, blocks_to_sync,
          blocks, transactions, receipts, logs, token_transfers, batch,
          sink, passed, sleeps, fetches, outcome, iter_file, last_window,
          prev_target, failed_from, failed_to, origin, restarted>>

\* Python's None where an integer is expected (start_block=None, end_block=None,
\* a local not assigned yet): an integer that is no block number and no cursor.
None == -1000

\* The content of a file that does not exist.
NoFile == <<"<no such file>">>

\* ------------------------------------------------------------------ bounds
MaxHead == 3
MaxItems == 2

\* ------------------------------------------------- str() and int() of Python
Digits == <<"0", "1", "2", "3", "4", "5", "6", "7", "8", "9">>

RECURSIVE StrNat(_)
StrNat(n) == IF n < 10 THEN <<Digits[n + 1]>>
             ELSE StrNat(n \div 10) \o <<Digits[(n % 10) + 1]>>

str(n) == IF n < 0 THEN <<"-">> \o StrNat(-n) ELSE StrNat(n)

Whitespace == {" ", "\n", "\t", "\r"}

RECURSIVE strip(_)
strip(s) == IF s = <<>> THEN s
            ELSE IF Head(s) \in Whitespace THEN strip(Tail(s))
            ELSE IF s[Len(s)] \in Whitespace THEN strip(SubSeq(s, 1, Len(s) - 1))
            ELSE s

DigitValue(c) == CHOOSE d \in 0..9 : Digits[d + 1] = c

IsDigit(c) == \E d \in 0..9 : Digits[d + 1] = c

RECURSIVE NatOf(_)
NatOf(s) == IF s = <<>> THEN 0
            ELSE 10 * NatOf(SubSeq(s, 1, Len(s) - 1)) + DigitValue(s[Len(s)])

int(text) ==
    LET s == strip(text)
        signed == s # <<>> /\ Head(s) \in {"-", "+"}
        digits == IF signed THEN Tail(s) ELSE s
    IN  IF digits = <<>> \/ \E i \in 1..Len(digits) : ~IsDigit(digits[i])
        THEN [raises |-> TRUE, value |-> None]
        ELSE [raises |-> FALSE,
              value |-> IF Head(s) = "-" THEN 0 - NatOf(digits) ELSE NatOf(digits)]

\* ------------------------------------------------------- the checkpoint file
\* What write_last_synced_block leaves in the file when the write goes through.
write_last_synced_block(value) == str(value) \o <<"\n">>

\* What smart_open(file, 'w') + write leaves when it raises: the store is
\* overwritten atomically from the caller's perspective, a failed write is not
\* observable.
FailedWrite(old) == old

\* A reader that takes the digits and drops the sign.
ReadUnsigned(content) ==
    LET r == int(content)
    IN  [raises |-> r.raises, value |-> IF r.value < 0 /\ ~r.raises THEN 0 - r.value ELSE r.value]

read_last_synced_block(content) == int(content)

isfile(content) == content # NoFile

\* The value the checkpoint store holds, None when there is no readable checkpoint.
Stored == IF isfile(file) THEN read_last_synced_block(file).value ELSE None

\* ------------------------------------------------------------------- join
\* A field list entry 'name' of the source is written Same("name"), an entry
\* ('src', 'dst') is written <<"src", "dst">>.
Same(field) == <<field, field>>

\* field_list_to_dict: the (src, dst) items of the dict in insertion order; a
\* src named twice keeps its first position and its last dst.
field_list_to_dict(field_list) ==
    LET first(i) == \A j \in 1..(i - 1) : field_list[j][1] # field_list[i][1]
        last(src) == CHOOSE j \in 1..Len(field_list) :
                        /\ field_list[j][1] = src
                        /\ \A k \in (j + 1)..Len(field_list) : field_list[k][1] # src
        idx == SelectSeq([i \in 1..Len(field_list) |-> i], first)
    IN  [n \in 1..Len(idx) |->
            <<field_list[idx[n]][1], field_list[last(field_list[idx[n]][1])][2]>>]

\* dict.get(field): None when the item has no such field.
get(item, field) == IF field \in DOMAIN item THEN item[field] ELSE None

Put(dict, key, value) ==
    [k \in (DOMAIN dict) \cup {key} |-> IF k = key THEN value ELSE dict[k]]

\* result_item[dst_field] = item.get(src_field) for the items of a dict, in order.
RECURSIVE Project(_, _, _)
Project(result_item, item, fields_as_dict) ==
    IF fields_as_dict = <<>> THEN result_item
    ELSE Project(Put(result_item, fields_as_dict[1][2], get(item, fields_as_dict[1][1])),
                 item, Tail(fields_as_dict))

RECURSIVE Flatten(_)
Flatten(seqs) == IF seqs = <<>> THEN <<>> ELSE Head(seqs) \o Flatten(Tail(seqs))

\* The keys of left_map, in the order the dict got them.
MapKeys(items, join_field) ==
    LET first(i) == \A j \in 1..(i - 1) : items[j][join_field] # items[i][join_field]
        idx == SelectSeq([i \in 1..Len(items) |-> i], first)
    IN  [n \in 1..Len(idx) |-> items[idx[n]][join_field]]

\* A map that hands out every item under every key.
MapGetAll(items, join_field, key) == items

\* left_map[key] / right_map[key]: the items with that key, in input order
\* (the empty list for a key the defaultdict has not seen).
MapGet(items, join_field, key) ==
    LET has(item) == item[join_field] = key IN SelectSeq(items, has)

join(left, right, join_fields, left_fields, right_fields) ==
    LET left_join_field == join_fields[1]
        right_join_field == join_fields[2]
        left_fields_as_dict == field_list_to_dict(left_fields)
        right_fields_as_dict == field_list_to_dict(right_fields)
        keys == MapKeys(left, left_join_field)
        result_item(left_item, right_item) ==
            Project(Project(<<>>, left_item, left_fields_as_dict),
                    right_item, right_fields_as_dict)
        product(ls, rs) ==
            Flatten([i \in 1..Len(ls) |->
                        [j \in 1..Len(rs) |-> result_item(ls[i], rs[j])]])
    IN  Flatten([k \in 1..Len(keys) |->
                    product(MapGet(left, left_join_field, keys[k]),
                            MapGet(right, right_join_field, keys[k]))])

TransactionFields ==
    <<Same("type"), Same("hash"), Same("nonce"), Same("transaction_index"),
      Same("from_address"), Same("to_address"), Same("value"), Same("gas"),
      Same("gas_price"), Same("input"), Same("block_number")>>

\* The receipt fields kept under their own names.
ReceiptFieldsUnprefixed ==
    <<Same("cumulative_gas_used"), Same("gas_used"), Same("contract_address"),
      Same("root"), Same("status")>>

ReceiptFields ==
    <<<<"cumulative_gas_used", "receipt_cumulative_gas_used">>,
      <<"gas_used", "receipt_gas_used">>,
      <<"contract_address", "receipt_contract_address">>,
      <<"root", "receipt_root">>,
      <<"status", "receipt_status">>>>

TransactionAndReceiptFields ==
    TransactionFields \o
    <<Same("receipt_cumulative_gas_used"), Same("receipt_gas_used"),
      Same("receipt_contract_address"), Same("receipt_root"), Same("receipt_status")>>

BlockFields == <<<<"timestamp", "block_timestamp">>, <<"hash", "block_hash">>>>

LogFields ==
    <<Same("type"), Same("log_index"), Same("transaction_hash"),
      Same("transaction_index"), Same("address"), Same("data"), Same("topics"),
      Same("block_number")>>

TokenTransferFields ==
    <<Same("type"), Same("token_address"), Same("from_address"), Same("to_address"),
      Same("value"), Same("transaction_hash"), Same("log_index"), Same("block_number")>>

enrich_transactions(blocks_, transactions_, receipts_) ==
    LET transactions_and_receipts ==
            join(transactions_, receipts_, <<"hash", "transaction_hash">>,
                 TransactionFields, ReceiptFields)
    IN  join(transactions_and_receipts, blocks_, <<"block_number", "number">>,
             TransactionAndReceiptFields, BlockFields)

enrich_logs(blocks_, logs_) ==
    join(logs_, blocks_, <<"block_number", "number">>, LogFields, BlockFields)

enrich_token_transfers(blocks_, token_transfers_) ==
    join(token_transfers_, blocks_, <<"block_number", "number">>,
         TokenTransferFields, BlockFields)

\* ------------------------------------------------- the fetch collaborators
BlockItem(n) == [type |-> "block", number |-> n, hash |-> 7000 + n, timestamp |-> 1000 + n]

TransactionItem(h, n) == [type |-> "transaction", hash |-> h, block_number |-> n]

ReceiptItem(tx) == [type |-> "receipt", transaction_hash |-> tx.hash,
                    block_number |-> tx.block_number, status |-> 1]

LogItem(r) == [type |-> "log", log_index |-> 0, transaction_hash |-> r.transaction_hash,
               block_number |-> r.block_number]

TokenTransferItem(l) == [type |-> "token_transfer", transaction_hash |-> l.transaction_hash,
                         log_index |-> l.log_index, block_number |-> l.block_number]

\* What ExportBlocksJob(start_block, end_block) can collect: the blocks of the
\* range; and no transaction, one, two, or one that names a block after the
\* range.
BlockResults(first, last) ==
    {[i \in 1..(last - first + 1) |-> BlockItem(first + i - 1)]}

TransactionResults(first, last) ==
    {<<>>,
     <<TransactionItem("A", first)>>,
     <<TransactionItem("A", first), TransactionItem("B", last)>>,
     <<TransactionItem("A", last + 1)>>}

\* What ExportReceiptsJob can collect for the transactions' hashes: one receipt
\* each, all but the last, or the first one's receipt in place of every one.
ReceiptResults(txs) ==
    {[i \in 1..Len(txs) |-> ReceiptItem(txs[i])],
     [i \in 1..(Len(txs) - 1) |-> ReceiptItem(txs[i])],
     [i \in 1..Len(txs) |-> ReceiptItem(txs[1])]}

LogResults(rs) == {<<>>} \cup {<<LogItem(rs[1])>> : x \in {1} \cap DOMAIN rs}

\* What ExtractTokenTransfersJob can derive: a transfer per log, or none.
TokenTransferResults(ls) == {<<>>, [i \in 1..Len(ls) |-> TokenTransferItem(ls[i])]}

BlockNumbers(items) ==
    {items[i].number : i \in {j \in 1..Len(items) : items[j].type = "block"}}

\* The heads the node can report: any of them at any query.
Heads == IF chain = "genesis" THEN 0..MaxHead ELSE {99, 101, 115}

\* --------------------------------------------------------------- stream()
\* start_block or 0
Or0(x) == IF x = None \/ x = 0 THEN 0 ELSE x

\* The initial cursor taken as the start block itself.
InitialCursorNoOffset(start) == Or0(start)

\* The argument of init_last_synced_block_file (line 197).
InitialCursor(start) == Or0(start) - 1

\* The loop going on until the cursor is past the end bound.
LoopConditionInclusive(end, cursor) == end = None \/ cursor <= end

LoopCondition(end, cursor) == end = None \/ cursor < end

\* The planner without the clamp to end_block.
TargetBlockNoEndClamp(head, lag_, cursor, max_window, end) ==
    LET t1 == head - lag_
    IN  IF t1 < cursor + max_window THEN t1 ELSE cursor + max_window

\* The planner with the lag left out.
TargetBlockNoLag(head, lag_, cursor, max_window, end) ==
    LET t2 == IF head < cursor + max_window THEN head ELSE cursor + max_window
    IN  IF end # None THEN (IF t2 < end THEN t2 ELSE end) ELSE t2

\* Lines 208-210.
TargetBlock(head, lag_, cursor, max_window, end) ==
    LET t1 == head - lag_
        t2 == IF t1 < cursor + max_window THEN t1 ELSE cursor + max_window
    IN  IF end # None THEN (IF t2 < end THEN t2 ELSE end) ELSE t2

\* The count without max(..., 0).
BlocksToSyncUnclamped(target, cursor) == target - cursor

\* The count of a window taken as [cursor + 1, target): one block short.
BlocksToSyncExclusive(target, cursor) ==
    IF target - cursor - 1 > 0 THEN target - cursor - 1 ELSE 0

\* Line 211.
BlocksToSync(target, cursor) == IF target - cursor > 0 THEN target - cursor ELSE 0

NothingToSync(count) == count = 0

\* The sleep skipped only for a full window with the end bound not reached.
SleepUnlessFullAndBehind(count, max_window, cursor, end) ==
    ~(count = max_window /\ cursor # end)

\* The condition of the sleep that ends an iteration.
SleepCondition(count, max_window, cursor, end) == count # max_window /\ cursor # end

\* The exception is not caught: it leaves stream().
ExceptPropagates == "raised"

\* Where control goes from the except clause of the loop body.
ExceptTarget == "tail"

\* The sleep of line 217 without the continue of line 218.
ContinueFallsThrough == "tail"

\* Where the continue of line 218 goes: the test of the while loop.
ContinueTarget == "loop"

\* The checkpoint written one block short of the window.
WrittenBlockShort(target) == target - 1

\* The value the loop writes to the checkpoint file (line 278).
WrittenBlock(target) == target

\* The cursor moved to the block after the window.
NextCursorPastWindow(target) == target + 1

\* The cursor the loop keeps after the write (line 279).
NextCursor(target) == target

Window == (last_synced_block + 1)..target_block

Locals == <<last_synced_block, current_block, target_block, blocks_to_sync>>
Items == <<blocks, transactions, receipts, logs, token_transfers, batch>>
Args == <<chain, end_block, lag, block_batch_size>>
Sunk == <<sink, passed>>
Progress == <<last_window, prev_target>>
Failure == <<failed_from, failed_to>>

Init ==
    /\ \/ /\ chain = "genesis"
          /\ file \in {NoFile, write_last_synced_block(1)}
          /\ start_block \in {None, 0, 2}
          /\ end_block \in {None, 3}
          /\ lag \in {0, 1}
          /\ block_batch_size \in {1, 2}
       \/ /\ chain = "late"
          /\ file = write_last_synced_block(100)
          /\ start_block = None
          /\ end_block \in {None, 110}
          /\ lag \in {0, 2}
          /\ block_batch_size = 10
    /\ pc = "init"
    /\ exporter = "new"
    /\ last_synced_block = None /\ current_block = None
    /\ target_block = None /\ blocks_to_sync = None
    /\ blocks = <<>> /\ transactions = <<>> /\ receipts = <<>>
    /\ logs = <<>> /\ token_transfers = <<>> /\ batch = <<>>
    /\ sink = {} /\ passed = {}
    /\ sleeps = 0 /\ fetches = 0
    /\ outcome = "none"
    /\ iter_file = file
    /\ last_window = <<>> /\ prev_target = None
    /\ failed_from = None /\ failed_to = None
    /\ origin = IF isfile(file) THEN read_last_synced_block(file).value ELSE None
    /\ restarted = FALSE

\* An exception escapes stream(): the process ends.
Raised ==
    /\ pc' = "raised"
    /\ UNCHANGED <<Args, start_block, exporter, Locals, Items, Sunk, sleeps, fetches,
                   outcome, iter_file, Progress, Failure, origin, restarted>>

\* Lines 196-201: create the checkpoint file if asked to or if there is none,
\* read it, open the exporter.
Startup ==
    /\ pc = "init"
    /\ \/ /\ start_block # None \/ ~isfile(file)
          /\ isfile(file)                       \* init_last_synced_block_file raises
          /\ UNCHANGED file
          /\ Raised
       \/ /\ start_block # None \/ ~isfile(file)
          /\ ~isfile(file)
          /\ \/ /\ file' = FailedWrite(file)    \* the write raises
                /\ Raised
             \/ /\ file' = write_last_synced_block(InitialCursor(start_block))
                /\ origin' = InitialCursor(start_block)
                /\ iter_file' = file'
                /\ last_synced_block' = read_last_synced_block(file').value
                /\ exporter' = "open"
                /\ pc' = "loop"
                /\ UNCHANGED <<Args, start_block, current_block, target_block,
                               blocks_to_sync, Items, Sunk, sleeps, fetches, outcome,
                               Progress, Failure, restarted>>
       \/ /\ ~(start_block # None \/ ~isfile(file))
          /\ UNCHANGED file
          /\ IF read_last_synced_block(file).raises
             THEN Raised
             ELSE /\ last_synced_block' = read_last_synced_block(file).value
                  /\ exporter' = "open"
                  /\ pc' = "loop"
                  /\ UNCHANGED <<Args, start_block, current_block, target_block,
                                 blocks_to_sync, Items, Sunk, sleeps, fetches, outcome,
                                 iter_file, Progress, Failure, origin, restarted>>

\* Lines 203-204: the test of the while loop and the first statement of its body.
LoopTest ==
    /\ pc = "loop"
    /\ IF LoopCondition(end_block, last_synced_block)
       THEN /\ pc' = "plan"
            /\ blocks_to_sync' = 0
            /\ sleeps' = 0 /\ fetches' = 0
            /\ outcome' = "running"
            /\ iter_file' = file
       ELSE /\ pc' = "returned"
            /\ UNCHANGED <<blocks_to_sync, sleeps, fetches, outcome, iter_file>>
    /\ UNCHANGED <<Args, file, start_block, exporter, last_synced_block, current_block,
                   target_block, Items, Sunk, Progress, Failure, origin, restarted>>

\* Lines 280-282: the exception of a step is caught and logged.
Caught(step) ==
    /\ pc' = ExceptTarget
    /\ outcome' = step

\* Lines 207-218: the head query, the window, and the sleep when it is empty.
Plan ==
    /\ pc = "plan"
    /\ \/ /\ Caught("head_failed")
          /\ UNCHANGED <<Locals, sleeps>>
       \/ \E head \in Heads :
            LET target == TargetBlock(head, lag, last_synced_block, block_batch_size, end_block)
                count == BlocksToSync(target, last_synced_block)
            IN  /\ current_block' = head
                /\ target_block' = target
                /\ blocks_to_sync' = count
                /\ UNCHANGED last_synced_block
                /\ IF NothingToSync(count)
                   THEN /\ sleeps' = sleeps + 1
                        /\ outcome' = "nothing"
                        /\ pc' = ContinueTarget
                   ELSE /\ pc' = "export_blocks"
                        /\ UNCHANGED <<sleeps, outcome>>
    /\ UNCHANGED <<Args, file, start_block, exporter, Items, Sunk, fetches, iter_file,
                   Progress, Failure, origin, restarted>>

\* Lines 221-235: ExportBlocksJob over [last_synced_block + 1, target_block].
ExportBlocks ==
    /\ pc = "export_blocks"
    /\ fetches' = fetches + 1
    /\ \/ /\ Caught("fetch_failed")
          /\ UNCHANGED <<blocks, transactions>>
       \/ /\ blocks' \in BlockResults(last_synced_block + 1, target_block)
          /\ transactions' \in TransactionResults(last_synced_block + 1, target_block)
          /\ pc' = "export_receipts"
          /\ UNCHANGED outcome
    /\ UNCHANGED <<Args, file, start_block, exporter, Locals, receipts, logs,
                   token_transfers, batch, Sunk, sleeps, iter_file, Progress, Failure,
                   origin, restarted>>

\* Lines 238-251: ExportReceiptsJob over the hashes of the transactions.
ExportReceipts ==
    /\ pc = "export_receipts"
    /\ fetches' = fetches + 1
    /\ \/ /\ Caught("fetch_failed")
          /\ UNCHANGED <<receipts, logs>>
       \/ /\ receipts' \in ReceiptResults(transactions)
          /\ logs' \in LogResults(receipts')
          /\ pc' = "extract_token_transfers"
          /\ UNCHANGED outcome
    /\ UNCHANGED <<Args, file, start_block, exporter, Locals, blocks, transactions,
                   token_transfers, batch, Sunk, sleeps, iter_file, Progress, Failure,
                   origin, restarted>>

\* Lines 254-262: ExtractTokenTransfersJob over the logs.
ExtractTokenTransfers ==
    /\ pc = "extract_token_transfers"
    /\ fetches' = fetches + 1
    /\ \/ /\ Caught("fetch_failed")
          /\ UNCHANGED token_transfers
       \/ /\ token_transfers' \in TokenTransferResults(logs)
          /\ pc' = "enrich"
          /\ UNCHANGED outcome
    /\ UNCHANGED <<Args, file, start_block, exporter, Locals, blocks, transactions,
                   receipts, logs, batch, Sunk, sleeps, iter_file, Progress, Failure,
                   origin, restarted>>

\* The length checks of lines 265, 268 and 271.
CountsMatch(enriched_transactions, enriched_logs, enriched_token_transfers) ==
    /\ Len(enriched_transactions) = Len(transactions)
    /\ Len(enriched_logs) = Len(logs)
    /\ Len(enriched_token_transfers) = Len(token_transfers)

\* Lines 264-275: the three enrichments with their length checks, and the
\* argument of export_items.
Enrich ==
    /\ pc = "enrich"
    /\ LET enriched_transactions == enrich_transactions(blocks, transactions, receipts)
           enriched_logs == enrich_logs(blocks, logs)
           enriched_token_transfers == enrich_token_transfers(blocks, token_transfers)
       IN  IF CountsMatch(enriched_transactions, enriched_logs, enriched_token_transfers)
           THEN /\ batch' = blocks \o enriched_transactions \o enriched_logs
                                \o enriched_token_transfers
                /\ pc' = "export_items"
                /\ UNCHANGED outcome
           ELSE /\ Caught("integrity_failed")
                /\ UNCHANGED batch
    /\ UNCHANGED <<Args, file, start_block, exporter, Locals, blocks, transactions,
                   receipts, logs, token_transfers, Sunk, sleeps, fetches, iter_file,
                   Progress, Failure, origin, restarted>>

\* export_items with its error swallowed: the loop goes on to the write.
ExportItemsSwallowsError ==
    /\ pc = "export_items"
    /\ passed' = passed \cup BlockNumbers(batch)
    /\ \/ /\ pc' = "write"
          /\ failed_from' = last_synced_block + 1
          /\ failed_to' = target_block
          /\ UNCHANGED <<sink, outcome>>
       \/ /\ sink' = sink \cup BlockNumbers(batch)
          /\ pc' = "write"
          /\ UNCHANGED <<outcome, Failure>>
    /\ UNCHANGED <<Args, file, start_block, exporter, Locals, Items, sleeps, fetches,
                   iter_file, Progress, origin, restarted>>

\* Line 275: item_exporter.export_items(batch) returns or raises.
ExportItems ==
    /\ pc = "export_items"
    /\ passed' = passed \cup BlockNumbers(batch)
    /\ \/ /\ Caught("publish_failed")
          /\ failed_from' = last_synced_block + 1
          /\ failed_to' = target_block
          /\ UNCHANGED sink
       \/ /\ sink' = sink \cup BlockNumbers(batch)
          /\ pc' = "write"
          /\ UNCHANGED <<outcome, Failure>>
    /\ UNCHANGED <<Args, file, start_block, exporter, Locals, Items, sleeps, fetches,
                   iter_file, Progress, origin, restarted>>

\* The cursor moved before the write: it stays moved when the write raises.
WriteCheckpointCursorFirst ==
    /\ pc = "write"
    /\ last_synced_block' = NextCursor(target_block)
    /\ \/ /\ file' = FailedWrite(file)
          /\ Caught("write_failed")
          /\ UNCHANGED <<Progress, Failure>>
       \/ /\ file' = write_last_synced_block(WrittenBlock(target_block))
          /\ pc' = "tail"
          /\ outcome' = "synced"
          /\ last_window' = <<last_synced_block + 1, target_block>>
          /\ prev_target' = IF last_window = <<>> THEN None ELSE last_window[2]
          /\ failed_from' = None /\ failed_to' = None
    /\ UNCHANGED <<Args, start_block, exporter, current_block, target_block,
                   blocks_to_sync, Items, Sunk, sleeps, fetches, iter_file, origin,
                   restarted>>

\* Lines 277-279: write the checkpoint, then move the cursor.
WriteCheckpoint ==
    /\ pc = "write"
    /\ \/ /\ file' = FailedWrite(file)
          /\ Caught("write_failed")
          /\ UNCHANGED <<last_synced_block, Progress, Failure>>
       \/ /\ file' = write_last_synced_block(WrittenBlock(target_block))
          /\ last_synced_block' = NextCursor(target_block)
          /\ pc' = "tail"
          /\ outcome' = "synced"
          /\ last_window' = <<last_synced_block + 1, target_block>>
          /\ prev_target' = IF last_window = <<>> THEN None ELSE last_window[2]
          /\ failed_from' = None /\ failed_to' = None
    /\ UNCHANGED <<Args, start_block, exporter, current_block, target_block,
                   blocks_to_sync, Items, Sunk, sleeps, fetches, iter_file, origin,
                   restarted>>

\* Lines 284-286: the sleep that ends the iteration. The items of the
\* iteration are dropped here: each is assigned again before it is read.
EndOfIteration ==
    /\ pc = "tail"
    /\ sleeps' = IF SleepCondition(blocks_to_sync, block_batch_size,
                                   last_synced_block, end_block)
                 THEN sleeps + 1 ELSE sleeps
    /\ pc' = "loop"
    /\ blocks' = <<>> /\ transactions' = <<>> /\ receipts' = <<>>
    /\ logs' = <<>> /\ token_transfers' = <<>> /\ batch' = <<>>
    /\ UNCHANGED <<Args, file, start_block, exporter, Locals, Sunk, fetches, outcome,
                   iter_file, Progress, Failure, origin, restarted>>

\* The process is stopped (a signal, a power cut) at any point after startup,
\* and stream() is started again on the same checkpoint file without
\* --start-block.
Restart ==
    /\ pc # "init"
    /\ restarted' = TRUE
    /\ start_block' = None
    /\ pc' = "init"
    /\ exporter' = "new"
    /\ last_synced_block' = None /\ current_block' = None
    /\ target_block' = None /\ blocks_to_sync' = None
    /\ blocks' = <<>> /\ transactions' = <<>> /\ receipts' = <<>>
    /\ logs' = <<>> /\ token_transfers' = <<>> /\ batch' = <<>>
    /\ sleeps' = 0 /\ fetches' = 0
    /\ outcome' = "none"
    /\ iter_file' = file
    /\ UNCHANGED <<Args, file, Sunk, Progress, Failure, origin>>

Next ==
    \/ Startup
    \/ LoopTest
    \/ Plan
    \/ ExportBlocks
    \/ ExportReceipts
    \/ ExtractTokenTransfers
    \/ Enrich
    \/ ExportItems
    \/ WriteCheckpoint
    \/ EndOfIteration
    \/ Restart

Spec == Init /\ [][Next]_vars

\* One call of stream() that nothing stops from outside: the thread keeps
\* running, so while stream() has neither returned nor raised its next step is
\* eventually taken.
LiveNext ==
    \/ Startup
    \/ LoopTest
    \/ Plan
    \/ ExportBlocks
    \/ ExportReceipts
    \/ ExtractTokenTransfers
    \/ Enrich
    \/ ExportItems
    \/ WriteCheckpoint
    \/ EndOfIteration

Positions == {"init", "loop", "plan", "export_blocks", "export_receipts",
              "extract_token_transfers", "enrich", "export_items", "write", "tail",
              "returned", "raised"}

\* stream() takes its next step: every step of LiveNext moves pc, and one is
\* possible at every position but the two final ones.
Proceeds == pc \notin {"returned", "raised"} /\ pc' \in Positions \ {pc}

LiveSpec == Init /\ [][LiveNext]_vars /\ WF_pc(Proceeds)

\* ------------------------------------------------------------------ claims
Min(a, b) == IF a <= b THEN a ELSE b
Max(a, b) == IF a >= b THEN a ELSE b

FailedOutcomes == {"head_failed", "fetch_failed", "integrity_failed",
                   "publish_failed", "write_failed"}

\* The positions at which a window has been planned and is being worked on.
WindowPcs == {"export_blocks", "export_receipts", "extract_token_transfers",
              "enrich", "export_items", "write"}

\* The planner has just run on last_synced_block: a window is about to be
\* fetched, or the window was empty and the loop slept.
JustPlanned == pc = "export_blocks" \/ (pc \in {"loop", "tail"} /\ outcome = "nothing")

\* The head was read in the iteration that outcome, sleeps and fetches describe.
HeadRead == /\ pc \in WindowPcs \cup {"tail", "loop", "returned"}
            /\ outcome \notin {"none", "head_failed"}

\* C1: the checkpoint is written only after export_items accepted the batch of
\* the same window: after a successful iteration with target T the file and the
\* cursor hold T and the window is in the sink; after an iteration whose
\* publish failed the file is as it was before the iteration; and the file
\* differs from its value at the start of the iteration only once the
\* iteration has succeeded.
C1_CheckpointAfterPublish ==
    /\ outcome = "synced" =>
          /\ file = write_last_synced_block(target_block)
          /\ Stored = target_block
          /\ last_synced_block = target_block
          /\ \A b \in last_window[1]..last_window[2] : b \in sink
          /\ last_window[2] = target_block
    /\ outcome = "publish_failed" => file = iter_file
    /\ pc = "write" => \A b \in Window : b \in sink
    /\ file # iter_file => outcome = "synced"

C1_Witness ==
    /\ pc = "loop" /\ outcome = "synced" /\ ~restarted
    /\ Stored = 110 /\ last_window = <<101, 110>>

\* C2: an exception of any step of an iteration is caught: control reaches the
\* end of the iteration and the loop test, which lets the loop go on; the
\* checkpoint file and the cursor are as they were when the iteration began;
\* stream() is left by an exception only at startup.
C2_FailureIsolated ==
    /\ (outcome \in FailedOutcomes /\ pc \in {"tail", "loop"}) =>
          /\ file = iter_file
          /\ file = write_last_synced_block(last_synced_block)
          /\ LoopCondition(end_block, last_synced_block)
    /\ outcome \in FailedOutcomes => pc \in {"tail", "loop", "init"}
    /\ pc = "raised" => outcome = "none" /\ exporter = "new"

C2_Witness ==
    /\ pc = "loop" /\ outcome = "write_failed" /\ last_window # <<>>
    /\ last_synced_block = last_window[2]

\* C3: the windows of the iterations that wrote the checkpoint are contiguous
\* and disjoint: each starts at the target of the one before plus 1, the first
\* at the initial cursor plus 1; no block up to the cursor was left out.
C3_WindowsContiguous ==
    /\ prev_target # None => last_window[1] = prev_target + 1
    /\ (last_window # <<>> /\ prev_target = None) => last_window[1] = origin + 1
    /\ last_window # <<>> => last_window[1] <= last_window[2]
    /\ (last_window # <<>> /\ last_synced_block # None) =>
          /\ last_synced_block = last_window[2]
          /\ \A b \in (origin + 1)..last_synced_block : b \in sink

C3_Witness ==
    /\ prev_target # None /\ outcome = "synced" /\ pc = "tail"
    /\ last_window[2] > last_window[1]
    /\ sleeps = 0

C5_CheckpointMonotonic ==
    [][/\ Stored' >= Stored
       /\ (pc = "write" /\ outcome' = "synced") => Stored' > Stored]_vars

C5_Witness ==
    /\ pc = "loop" /\ outcome = "nothing" /\ last_window # <<>>
    /\ current_block < last_synced_block
    /\ Stored = last_synced_block

\* C6: after the process was stopped and stream() started again without a start
\* block, the cursor the loop plans from is the one in the checkpoint file, so
\* every window starts at the persisted checkpoint plus 1, and every block up
\* to the checkpoint is in a batch the sink accepted.
C6_ResumeAfterRestart ==
    restarted =>
        /\ pc \in WindowPcs \cup {"loop", "plan"} =>
              \/ file = write_last_synced_block(last_synced_block)
              \/ pc = "loop" /\ outcome = "synced"
        /\ pc \in WindowPcs \ {"write"} => last_synced_block + 1 = Stored + 1
        /\ (origin # None /\ isfile(file)) => \A b \in (origin + 1)..Stored : b \in sink

C6_Witness ==
    /\ restarted /\ pc = "export_items"
    /\ \A b \in Window : b \in sink
    /\ last_synced_block = Stored

\* C7 as stated: the target the planner computes is always >= the cursor, <=
\* the cursor plus the maximal window, and <= the end bound when one is set.
C7_TargetNotBelowCursor ==
    JustPlanned =>
        /\ target_block >= last_synced_block
        /\ target_block <= last_synced_block + block_batch_size
        /\ end_block # None => target_block <= end_block

\* C7 as amended: the target is <= the cursor plus the maximal window and <=
\* the end bound when one is set; it is >= the cursor whenever head - lag is;
\* when head - lag is below the cursor the target is head - lag, below the
\* cursor, and the window is empty: the loop sleeps and fetches nothing.
C7_TargetBounds ==
    JustPlanned =>
        /\ target_block <= last_synced_block + block_batch_size
        /\ end_block # None => target_block <= end_block
        /\ current_block - lag >= last_synced_block => target_block >= last_synced_block
        /\ current_block - lag < last_synced_block =>
              /\ target_block = current_block - lag
              /\ blocks_to_sync = 0 /\ fetches = 0 /\ outcome = "nothing"
        /\ pc = "export_blocks" => target_block > last_synced_block

C7_Witness ==
    /\ pc = "loop" /\ outcome = "nothing" /\ end_block = 110
    /\ target_block < last_synced_block
    /\ last_synced_block = 101 /\ current_block = 99 /\ sleeps = 1 /\ fetches = 0

\* C8: target = min(head - lag, cursor + maxWindow), clamped to the end bound
\* when one is set; count = max(target - cursor, 0); cursor=100, head=115,
\* lag=2, maxWindow=10 give target=110 and count=10; the block job is run on
\* exactly [cursor + 1, target].
C8_PlannerFormula ==
    /\ JustPlanned =>
          /\ target_block =
                IF end_block # None
                THEN Min(Min(current_block - lag, last_synced_block + block_batch_size),
                         end_block)
                ELSE Min(current_block - lag, last_synced_block + block_batch_size)
          /\ blocks_to_sync = Max(target_block - last_synced_block, 0)
          /\ (/\ last_synced_block = 100 /\ current_block = 115
              /\ lag = 2 /\ block_batch_size = 10) =>
                (target_block = 110 /\ blocks_to_sync = 10)
    /\ pc = "export_receipts" =>
          /\ BlockNumbers(blocks) = (last_synced_block + 1)..target_block
          /\ Len(blocks) = blocks_to_sync

C8_Witness ==
    /\ pc = "export_receipts" /\ last_synced_block = 100 /\ current_block = 115
    /\ lag = 2 /\ block_batch_size = 10 /\ target_block = 110
    /\ Len(blocks) = 10

\* C9: in an iteration whose head - lag is <= the cursor the count is 0, no
\* fetch collaborator and no export_items is run, the checkpoint file is left
\* as it was, and the loop sleeps exactly once before the next loop test; an
\* iteration that synced had head - lag above its cursor.
C9_Backpressure ==
    /\ (HeadRead /\ outcome # "synced" /\ current_block - lag <= last_synced_block) =>
          /\ blocks_to_sync = 0
          /\ outcome = "nothing"
          /\ fetches = 0
          /\ batch = <<>>
          /\ file = iter_file
          /\ sleeps = 1
          /\ pc = "loop"
    /\ (HeadRead /\ outcome = "synced") => current_block - lag >= last_window[1]

C9_Witness ==
    /\ pc = "loop" /\ outcome = "nothing" /\ sleeps = 1 /\ fetches = 0
    /\ current_block - lag = last_synced_block /\ last_window # <<>>

\* C10 as stated: with cursor=100, head=101, lag=0, maxWindow=10 and no end
\* bound the count is 0 and the loop sleeps without running a fetch collaborator.
C10_ScenarioSleeps ==
    (/\ HeadRead /\ outcome # "synced"
     /\ last_synced_block = 100 /\ current_block = 101
     /\ lag = 0 /\ block_batch_size = 10 /\ end_block = None) =>
        (blocks_to_sync = 0 /\ fetches = 0 /\ pc = "loop" /\ sleeps = 1)

\* C10 as amended: with cursor=100, head=101, lag=0, maxWindow=10 and no end
\* bound the target is 101 and the count is 1: the loop does not sleep but
\* runs the block job on [101, 101]; with these settings the count is 0 only
\* for a head <= 100.
C10_ScenarioFetches ==
    /\ (/\ HeadRead /\ outcome # "synced"
        /\ last_synced_block = 100 /\ current_block = 101
        /\ lag = 0 /\ block_batch_size = 10 /\ end_block = None) =>
          /\ target_block = 101 /\ blocks_to_sync = 1
          /\ outcome # "nothing"
          /\ pc \in WindowPcs => sleeps = 0
          /\ pc \in WindowPcs \ {"export_blocks"} => BlockNumbers(blocks) = {101}
    /\ (/\ pc = "loop" /\ outcome = "nothing" /\ last_synced_block = 100
        /\ lag = 0 /\ block_batch_size = 10 /\ end_block = None) =>
          current_block <= 100

C10_Witness ==
    /\ pc = "export_receipts" /\ last_synced_block = 100 /\ current_block = 101
    /\ lag = 0 /\ block_batch_size = 10 /\ end_block = None
    /\ blocks_to_sync = 1 /\ BlockNumbers(blocks) = {101} /\ sleeps = 0

\* C11: after a failed iteration the loop sleeps before the next loop test and
\* plan, whatever the size of the window that failed.
C11_SleepAfterFailure ==
    (pc = "loop" /\ outcome \in FailedOutcomes) => sleeps >= 1

\* C12 as stated: at the end of an iteration that ran the block job the sleep
\* is skipped exactly when the window was full and the cursor is not the end
\* bound.
C12_SleepUnlessFullAndBehind ==
    (pc = "loop" /\ fetches > 0) =>
        (sleeps = 0 <=> (blocks_to_sync = block_batch_size
                         /\ last_synced_block # end_block))

\* C12 as amended: at the end of an iteration that ran the block job the loop
\* sleeps, once, exactly when the window was not full and the cursor is not
\* the end bound; it does not sleep after a full window, nor when the cursor
\* has reached the end bound.
C12_SleepRule ==
    (pc = "loop" /\ fetches > 0) =>
        /\ sleeps \in {0, 1}
        /\ sleeps = 1 <=> (blocks_to_sync # block_batch_size
                           /\ last_synced_block # end_block)
        /\ last_synced_block = end_block => sleeps = 0

C12_Witness ==
    /\ pc = "loop" /\ outcome = "synced" /\ fetches = 3
    /\ last_synced_block = end_block
    /\ blocks_to_sync < block_batch_size
    /\ sleeps = 0

\* An end bound is set, startup did not raise, no iteration fails and every
\* head read is at least the end bound plus the lag.
HeadStaysAndNoFailure ==
    /\ end_block # None
    /\ pc # "raised"
    /\ outcome \notin FailedOutcomes
    /\ current_block # None => current_block - lag >= end_block

\* C13: with an end bound the cursor never exceeds it, an iteration is only
\* started below it and the loop test ends stream() exactly when the cursor
\* is on it; if from some point on no iteration fails and every head read is
\* at least the end bound plus the lag, stream() eventually returns. Without
\* an end bound stream() never returns.
C13_EndBound ==
    /\ [](end_block # None /\ last_synced_block # None
             => last_synced_block <= end_block)
    /\ [](pc \in {"plan"} \cup WindowPcs /\ end_block # None
             => last_synced_block < end_block)
    /\ [](pc = "returned" => end_block # None /\ last_synced_block = end_block)
    /\ [][pc = "loop" /\ last_synced_block = end_block => pc' = "returned"]_vars
    /\ [][pc' = "returned" => pc = "loop" /\ last_synced_block = end_block]_vars
    /\ <>[]HeadStaysAndNoFailure => <>(pc = "returned")
    /\ [](end_block = None => pc # "returned")

C13_Witness ==
    /\ pc = "returned"
    /\ end_block = 3 /\ last_synced_block = 3
    /\ last_window = <<3, 3>>
    /\ current_block = 3 /\ lag = 0

\* C14: startup with a checkpoint file and a start block raises with the file
\* unchanged, the exporter not opened and nothing fetched; startup without a
\* file writes S - 1 (S the start block, 0 when there is none) and takes it as
\* the cursor; startup with a file and no start block takes the stored value
\* and leaves the file alone.
C14_Startup ==
    [][pc = "init" =>
          /\ (start_block # None /\ isfile(file)) =>
                /\ pc' = "raised" /\ file' = file
                /\ exporter' = "new" /\ fetches' = 0 /\ sink' = sink /\ passed' = passed
          /\ (~isfile(file) /\ pc' # "raised") =>
                LET S == IF start_block = None THEN 0 ELSE start_block
                IN  /\ file' = write_last_synced_block(S - 1)
                    /\ last_synced_block' = S - 1
                    /\ exporter' = "open" /\ pc' = "loop"
          /\ (start_block = None /\ isfile(file)) =>
                /\ file' = file
                /\ last_synced_block' = int(file).value
                /\ exporter' = "open" /\ pc' = "loop"]_vars

C14_Witness ==
    /\ pc = "export_blocks" /\ start_block = 2 /\ ~restarted /\ last_window = <<>>
    /\ last_synced_block + 1 = 2
    /\ file = write_last_synced_block(1)

\* C15: when stream() has returned after opening the exporter, the exporter
\* has been closed.
C15_SinkClosed ==
    pc = "returned" => exporter # "open"

\* C20: at the planning step the cursor is the value in the checkpoint file,
\* after synced, failed (a raising checkpoint write included) and empty
\* iterations.
C20_CursorIsCheckpoint ==
    pc \in {"loop", "plan"} \cup WindowPcs =>
        /\ file = write_last_synced_block(last_synced_block)
        /\ Stored = last_synced_block

C20_Witness ==
    /\ pc = "loop" /\ outcome = "write_failed"
    /\ Stored = last_synced_block
    /\ target_block > last_synced_block
    /\ \A b \in Window : b \in sink

\* ------------------------------------------- the enrichment on any fetch result
\* The sequences of at most n elements of S.
RECURSIVE SeqsUpTo(_, _)
SeqsUpTo(S, n) ==
    IF n = 0 THEN {<<>>}
    ELSE LET shorter == SeqsUpTo(S, n - 1)
         IN  shorter \cup {Append(q, x) : q \in shorter, x \in S}

FetchedReceipt(h) ==
    [type |-> "receipt", transaction_hash |-> h, status |-> 1,
     gas_used |-> IF h = "A" THEN 21 ELSE 42]

FetchedLog(n) == LogItem([transaction_hash |-> "A", block_number |-> n])

\* stream() at line 264 of an iteration on the window [5, 6], with whatever
\* the three jobs may have collected: blocks 5 and 6 present, absent or twice,
\* transactions and logs of block 5 or of a block 9 that was not fetched,
\* receipts missing or twice.
EnrichInit ==
    /\ chain = "genesis"
    /\ file = write_last_synced_block(4)
    /\ start_block = None /\ end_block = None
    /\ lag = 0 /\ block_batch_size = 2
    /\ pc = "enrich"
    /\ exporter = "open"
    /\ last_synced_block = 4 /\ current_block = 6
    /\ target_block = 6 /\ blocks_to_sync = 2
    /\ blocks \in SeqsUpTo({BlockItem(n) : n \in {5, 6}}, 2)
    /\ transactions \in
          SeqsUpTo({TransactionItem("A", 5), TransactionItem("A", 9),
                    TransactionItem("B", 5)}, MaxItems)
    /\ receipts \in SeqsUpTo({FetchedReceipt(h) : h \in {"A", "B"}}, MaxItems)
    /\ logs \in SeqsUpTo({FetchedLog(n) : n \in {5, 9}}, 2)
    /\ token_transfers \in SeqsUpTo({TokenTransferItem(FetchedLog(n)) : n \in {5, 9}}, 1)
    /\ batch = <<>>
    /\ sink = {} /\ passed = {}
    /\ sleeps = 0 /\ fetches = 3
    /\ outcome = "running"
    /\ iter_file = file
    /\ last_window = <<>> /\ prev_target = None
    /\ failed_from = None /\ failed_to = None
    /\ origin = 4
    /\ restarted = FALSE

EnrichNext ==
    \/ Enrich
    \/ ExportItems
    \/ WriteCheckpoint

EnrichSpec == EnrichInit /\ [][EnrichNext]_vars

\* ------------------------------------------------------ claims C16 to C19
Remove(seq, j) == SubSeq(seq, 1, j - 1) \o SubSeq(seq, j + 1, Len(seq))

Dst(field_list) == {field_list[i][2] : i \in DOMAIN field_list}

ReceiptsOf(tx) == {j \in DOMAIN receipts : receipts[j].transaction_hash = tx.hash}

BlocksOf(n) == {j \in DOMAIN blocks : blocks[j].number = n}

\* Every transaction has exactly one receipt and exactly one block.
OneReceiptOneBlock ==
    \A i \in DOMAIN transactions :
        /\ Cardinality(ReceiptsOf(transactions[i])) = 1
        /\ Cardinality(BlocksOf(transactions[i].block_number)) = 1

\* One record per transaction, with its own hash, its block's timestamp and
\* hash, and its receipt's fields under the receipt_ prefix.
OneRecordPerTransaction ==
    LET enriched == enrich_transactions(blocks, transactions, receipts)
    IN  /\ Len(enriched) = Len(transactions)
        /\ \A i \in DOMAIN transactions :
              Cardinality({k \in DOMAIN enriched :
                              /\ get(enriched[k], "hash") = transactions[i].hash
                              /\ get(enriched[k], "block_number")
                                    = transactions[i].block_number})
                 = Cardinality({j \in DOMAIN transactions :
                                   transactions[j] = transactions[i]})
        /\ \A k \in DOMAIN enriched :
              \E b \in DOMAIN blocks, r \in DOMAIN receipts :
                 /\ blocks[b].number = get(enriched[k], "block_number")
                 /\ get(enriched[k], "block_timestamp") = blocks[b].timestamp
                 /\ get(enriched[k], "block_hash") = blocks[b].hash
                 /\ receipts[r].transaction_hash = get(enriched[k], "hash")
                 /\ get(enriched[k], "receipt_gas_used") = receipts[r].gas_used
                 /\ get(enriched[k], "receipt_status") = receipts[r].status
                 /\ get(enriched[k], "gas_used") = None
                 /\ get(enriched[k], "status") = None

\* The length check of stream() fails once receipt j is taken away.
DetectedWithout(j) ==
    ~CountsMatch(enrich_transactions(blocks, transactions, Remove(receipts, j)),
                 enrich_logs(blocks, logs),
                 enrich_token_transfers(blocks, token_transfers))

\* C16 as stated: when every transaction has exactly one receipt and exactly
\* one block, enrich_transactions returns one record per transaction with the
\* block's and the receipt's fields, and removing any one receipt of the input
\* makes the length check of stream() fail.
C16_RemoveAnyReceipt ==
    OneReceiptOneBlock =>
        /\ OneRecordPerTransaction
        /\ \A j \in DOMAIN receipts : DetectedWithout(j)

\* C16 amended: when every transaction has exactly one receipt and exactly one
\* block, enrich_transactions returns one record per transaction, each with the
\* transaction's hash, the timestamp and hash of its block and its receipt's
\* fields under the receipt_ prefix, and stream() publishes them; removing the
\* receipt of one of the transactions makes the length check of stream() fail.
C16_OnePerTransaction ==
    OneReceiptOneBlock =>
        /\ OneRecordPerTransaction
        /\ \A j \in DOMAIN receipts :
              (\E i \in DOMAIN transactions :
                  transactions[i].hash = receipts[j].transaction_hash)
                 => DetectedWithout(j)
        /\ pc = "export_items" =>
              SubSeq(batch, 1, Len(blocks) + Len(transactions))
                 = blocks \o enrich_transactions(blocks, transactions, receipts)

C16_Witness ==
    /\ pc = "export_items"
    /\ blocks = <<BlockItem(5)>>
    /\ transactions = <<TransactionItem("A", 5), TransactionItem("B", 5)>>
    /\ receipts = <<FetchedReceipt("A"), FetchedReceipt("B")>>
    /\ OneReceiptOneBlock
    /\ Len(enrich_transactions(blocks, transactions, receipts)) = 2
    /\ DetectedWithout(2)

\* A fetched transaction, log or token transfer names a block that is not
\* among the fetched blocks.
ReferencesAbsentBlock ==
    \E items \in {transactions, logs, token_transfers} :
        \E i \in DOMAIN items : items[i].block_number \notin BlockNumbers(blocks)

\* C17: when a fetched log, token transfer or transaction references a block
\* that was not fetched, the enrichment yields no record for it and the
\* iteration is aborted with an integrity error: export_items is not called and
\* the checkpoint is not advanced.
C17_AbsentBlockAborts ==
    ReferencesAbsentBlock =>
        /\ \A k \in DOMAIN enrich_logs(blocks, logs) :
              enrich_logs(blocks, logs)[k].block_number \in BlockNumbers(blocks)
        /\ pc \in {"enrich", "tail"}
        /\ pc = "tail" => outcome = "integrity_failed"
        /\ passed = {}
        /\ file = iter_file
        /\ last_synced_block = origin

TransactionReceiptJoin ==
    join(transactions, receipts, <<"hash", "transaction_hash">>,
         TransactionFields, ReceiptFields)

\* C18: join emits, for every key, as many records as there are pairs of a left
\* and a right record with that key, so that a record without a partner on the
\* other side contributes nothing; each emitted record has exactly the
\* destination fields of both sides, filled from one such pair.
C18_InnerJoin ==
    LET txr == TransactionReceiptJoin
        lgb == enrich_logs(blocks, logs)
    IN  /\ \A key \in {"A", "B"} :
              Cardinality({n \in DOMAIN txr : txr[n].hash = key})
                 = Cardinality({i \in DOMAIN transactions : transactions[i].hash = key})
                   * Cardinality({j \in DOMAIN receipts :
                                     receipts[j].transaction_hash = key})
        /\ \A key \in {5, 6, 9} :
              Cardinality({n \in DOMAIN lgb : lgb[n].block_number = key})
                 = Cardinality({i \in DOMAIN logs : logs[i].block_number = key})
                   * Cardinality(BlocksOf(key))
        /\ \A n \in DOMAIN txr :
              /\ DOMAIN txr[n] = Dst(TransactionFields) \cup Dst(ReceiptFields)
              /\ \E i \in DOMAIN transactions, j \in DOMAIN receipts :
                    /\ transactions[i].hash = receipts[j].transaction_hash
                    /\ \A f \in DOMAIN TransactionFields :
                          txr[n][TransactionFields[f][2]]
                             = get(transactions[i], TransactionFields[f][1])
                    /\ \A f \in DOMAIN ReceiptFields :
                          txr[n][ReceiptFields[f][2]]
                             = get(receipts[j], ReceiptFields[f][1])
        /\ \A n \in DOMAIN lgb :
              /\ DOMAIN lgb[n] = Dst(LogFields) \cup Dst(BlockFields)
              /\ \E i \in DOMAIN logs, j \in DOMAIN blocks :
                    /\ logs[i].block_number = blocks[j].number
                    /\ \A f \in DOMAIN LogFields :
                          lgb[n][LogFields[f][2]] = get(logs[i], LogFields[f][1])
                    /\ \A f \in DOMAIN BlockFields :
                          lgb[n][BlockFields[f][2]] = get(blocks[j], BlockFields[f][1])

C18_Witness ==
    /\ pc = "export_items"
    /\ transactions = <<TransactionItem("A", 5), TransactionItem("B", 5)>>
    /\ receipts = <<FetchedReceipt("A"), FetchedReceipt("A")>>
    /\ Len(TransactionReceiptJoin) = 2
    /\ \A n \in 1..2 : TransactionReceiptJoin[n].hash = "A"

\* The batch records that are the enriched form of a fetched item: its type,
\* its fields, and the timestamp and hash of a fetched block of its number.
EnrichedFrom(item, field_list) ==
    {k \in DOMAIN batch :
        /\ batch[k].type = item.type
        /\ \A f \in DOMAIN field_list :
              get(batch[k], field_list[f][2]) = get(item, field_list[f][1])
        /\ \E b \in BlocksOf(item.block_number) :
              /\ get(batch[k], "block_timestamp") = blocks[b].timestamp
              /\ get(batch[k], "block_hash") = blocks[b].hash}

Copies(items, i) == {j \in DOMAIN items : items[j] = items[i]}

\* C19: when an iteration reaches the publish call, every fetched transaction,
\* log and token transfer appears exactly once, enriched, in the batch.
C19_NothingLost ==
    pc = "export_items" =>
        /\ \A i \in DOMAIN transactions :
              Cardinality(EnrichedFrom(transactions[i], TransactionFields))
                 = Cardinality(Copies(transactions, i))
        /\ \A i \in DOMAIN logs :
              Cardinality(EnrichedFrom(logs[i], LogFields))
                 = Cardinality(Copies(logs, i))
        /\ \A i \in DOMAIN token_transfers :
              Cardinality(EnrichedFrom(token_transfers[i], TokenTransferFields))
                 = Cardinality(Copies(token_transfers, i))

====
